---- MODULE Spec2Model ----
(***************************************************************************)
(* Index node ParamTable (internal/indexnode/param_table.go): the run-once *)
(* initialisation protocol (InitOnce / Init / InitAlias) and the           *)
(* derivation of every field from the layered key/value store.             *)
(*                                                                         *)
(* Strings are sequences of one-character strings, so that path.Join,      *)
(* strings.Split and strconv.ParseBool are computed, not assumed.          *)
(***************************************************************************)
EXTENDS Integers, Sequences, FiniteSets, TLC

(***************************************************************************)
(* Bounds of the model.                                                    *)
(***************************************************************************)
\* number of goroutines that call into the ParamTable
NumCallers == 2
\* longest path segment enumerated for the path-composition checks
MaxPathLen == 3

Callers == 1..NumCallers

(***************************************************************************)
(* The ParamTable instances: the package-level Params and one more         *)
(* instance a caller has constructed itself.                               *)
(***************************************************************************)
Params == "Params"
Tables == {Params, "pt2"}

(***************************************************************************)
(* String helpers.                                                         *)
(***************************************************************************)
EmptyStr == << >>

RECURSIVE SplitOn(_, _)
\* strings.Split(s, sep) for a one-character sep: cut at every sep, keep
\* empty pieces, so the result has (number of sep) + 1 elements
SplitOn(s, sep) ==
    IF \A i \in 1..Len(s) : s[i] # sep
    THEN << s >>
    ELSE LET i == CHOOSE j \in 1..Len(s) :
                      s[j] = sep /\ \A k \in 1..(j - 1) : s[k] # sep
         IN  << SubSeq(s, 1, i - 1) >> \o SplitOn(SubSeq(s, i + 1, Len(s)), sep)

RECURSIVE JoinWith(_, _)
\* strings.Join(elems, sep)
JoinWith(elems, sep) ==
    IF elems = << >> THEN << >>
    ELSE IF Len(elems) = 1 THEN elems[1]
    ELSE elems[1] \o << sep >> \o JoinWith(Tail(elems), sep)

(***************************************************************************)
(* path.Clean and path.Join of the Go standard library.                    *)
(***************************************************************************)
RECURSIVE CleanElems(_, _, _)
\* the lexical processing of path.Clean, element by element: out is the
\* stack of elements kept so far
CleanElems(elems, out, rooted) ==
    IF elems = << >> THEN out
    ELSE LET e == Head(elems)
             rest == Tail(elems)
         IN  IF e = << >> \/ e = << "." >>
             THEN CleanElems(rest, out, rooted)
             ELSE IF e = << ".", "." >>
             THEN IF out # << >> /\ out[Len(out)] # << ".", "." >>
                  THEN CleanElems(rest, SubSeq(out, 1, Len(out) - 1), rooted)
                  ELSE IF rooted
                       THEN CleanElems(rest, out, rooted)
                       ELSE CleanElems(rest, Append(out, e), rooted)
             ELSE CleanElems(rest, Append(out, e), rooted)

Clean(p) ==
    IF p = << >> THEN << "." >>
    ELSE LET rooted == p[1] = "/"
             out == CleanElems(SplitOn(p, "/"), << >>, rooted)
         IN  IF rooted THEN << "/" >> \o JoinWith(out, "/")
             ELSE IF out = << >> THEN << "." >>
             ELSE JoinWith(out, "/")

\* path.Join(a, b): empty elements are ignored, the rest is joined with one
\* slash and cleaned; the join of two empty strings is the empty string
PathJoin(a, b) ==
    IF Len(a) + Len(b) = 0 THEN << >>
    ELSE IF a = << >> THEN Clean(b)
    ELSE Clean(a \o << "/" >> \o b)

(***************************************************************************)
(* strconv.ParseBool.                                                      *)
(***************************************************************************)
TrueTokens == { << "1" >>, << "t" >>, << "T" >>, << "T", "R", "U", "E" >>,
                << "t", "r", "u", "e" >>, << "T", "r", "u", "e" >> }
FalseTokens == { << "0" >>, << "f" >>, << "F" >>, << "F", "A", "L", "S", "E" >>,
                 << "f", "a", "l", "s", "e" >>, << "F", "a", "l", "s", "e" >> }

\* the pair strconv.ParseBool returns: the value is false when err is set
ParseBool(s) ==
    IF s \in TrueTokens THEN [val |-> TRUE, err |-> FALSE]
    ELSE IF s \in FalseTokens THEN [val |-> FALSE, err |-> FALSE]
    ELSE [val |-> FALSE, err |-> TRUE]

(***************************************************************************)
(* String literals of the source.                                          *)
(***************************************************************************)
Auto == << "a", "u", "t", "o" >>
IndexFiles == << "i", "n", "d", "e", "x", "_", "f", "i", "l", "e", "s" >>
IndexNode == << "i", "n", "d", "e", "x", "n", "o", "d", "e" >>

(***************************************************************************)
(* The layered store (paramtable.BaseTable): a map from keys to strings.   *)
(* A key that is in no layer is not in the domain of the map.              *)
(***************************************************************************)
KMinioAddress == "_MinioAddress"
KAccessKeyID == "minio.accessKeyID"
KSecretAccessKey == "minio.secretAccessKey"
KUseSSL == "minio.useSSL"
KBucketName == "minio.bucketName"
KEtcdEndpoints == "_EtcdEndpoints"
KEtcdRootPath == "etcd.rootPath"
KMetaSubPath == "etcd.metaSubPath"
KMinioRootPath == "minio.rootPath"
KSimdType == "knowhere.simdType"

RequiredKeys == { KMinioAddress, KAccessKeyID, KSecretAccessKey, KUseSSL,
                  KBucketName, KEtcdEndpoints, KEtcdRootPath, KMetaSubPath,
                  KMinioRootPath }

EmptyStore == [k \in {} |-> EmptyStr]

\* the map m without key k
Without(m, k) == [x \in (DOMAIN m) \ {k} |-> m[x]]
\* the map m with key k set to v
With(m, k, v) == [x \in (DOMAIN m) \cup {k} |-> IF x = k THEN v ELSE m[x]]

\* Load(key): the value and whether the key was found
Load(store, key) ==
    IF key \in DOMAIN store
    THEN [val |-> store[key], err |-> FALSE]
    ELSE [val |-> EmptyStr, err |-> TRUE]

\* LoadWithDefault(key, default): the value when the key is present in some
\* layer, the default otherwise; it does not fail
LoadWithDefault(store, key, default) ==
    IF key \in DOMAIN store
    THEN [val |-> store[key], err |-> FALSE]
    ELSE [val |-> default, err |-> FALSE]

\* LoadYaml: the keys of the document go to the default layer, so a key the
\* store already holds keeps its value
MergeYaml(store, doc) ==
    [k \in (DOMAIN store) \cup (DOMAIN doc) |->
        IF k \in DOMAIN store THEN store[k] ELSE doc[k]]

(***************************************************************************)
(* The contents the store is given by the environment.                     *)
(***************************************************************************)
GoodStore ==
    [k \in RequiredKeys |->
        CASE k = KMinioAddress -> << "m" >>
          [] k = KAccessKeyID -> << "k" >>
          [] k = KSecretAccessKey -> << "s" >>
          [] k = KUseSSL -> << "t", "r", "u", "e" >>
          [] k = KBucketName -> << "b" >>
          [] k = KEtcdEndpoints -> << "h", ",", "g" >>
          [] k = KEtcdRootPath -> << "a" >>
          [] k = KMetaSubPath -> << "b" >>
          [] k = KMinioRootPath -> << "x" >>]

\* a second complete configuration, different in every value
OtherStore ==
    [k \in RequiredKeys \cup {KSimdType} |->
        CASE k = KMinioAddress -> << "n" >>
          [] k = KAccessKeyID -> << "l" >>
          [] k = KSecretAccessKey -> << "r" >>
          [] k = KUseSSL -> << "f", "a", "l", "s", "e" >>
          [] k = KBucketName -> << "c" >>
          [] k = KEtcdEndpoints -> << >>
          [] k = KEtcdRootPath -> << "/", "a", "/" >>
          [] k = KMetaSubPath -> << "/", "b" >>
          [] k = KMinioRootPath -> << >>
          [] k = KSimdType -> << "s", "s", "e" >>]

\* advanced/knowhere.yaml as found on disk: missing or malformed (ok is
\* false), or a document with or without the key knowhere.simdType
YamlMissing == [ok |-> FALSE, doc |-> EmptyStore]
YamlNoKey == [ok |-> TRUE, doc |-> EmptyStore]
YamlSimd(v) == [ok |-> TRUE, doc |-> With(EmptyStore, KSimdType, v)]

Env(kv, yaml) == [kv |-> kv, yaml |-> yaml]

\* the environments of the protocol checks: complete configurations, one
\* that lacks minio.bucketName, one whose YAML document cannot be loaded
Envs ==
    { Env(GoodStore, YamlNoKey),
      Env(GoodStore, YamlSimd(<< "a", "v", "x" >>)),
      Env(OtherStore, YamlSimd(<< "a", "v", "x" >>)),
      Env(Without(GoodStore, KBucketName), YamlNoKey),
      Env(GoodStore, YamlMissing) }

(***************************************************************************)
(* The ParamTable record.                                                  *)
(***************************************************************************)
FieldOrder == << "MinIOAddress", "MinIOAccessKeyID", "MinIOSecretAccessKey",
                 "MinIOUseSSL", "MinioBucketName", "EtcdEndpoints",
                 "MetaRootPath", "IndexRootPath", "RoleName", "SimdType" >>
ResolvedFields == { FieldOrder[i] : i \in 1..Len(FieldOrder) }

\* the zero value of the struct
ZeroTable ==
    [ Address |-> EmptyStr, Alias |-> EmptyStr,
      EtcdEndpoints |-> << >>, MetaRootPath |-> EmptyStr,
      IndexRootPath |-> EmptyStr,
      MinIOAddress |-> EmptyStr, MinIOAccessKeyID |-> EmptyStr,
      MinIOSecretAccessKey |-> EmptyStr, MinIOUseSSL |-> FALSE,
      MinioBucketName |-> EmptyStr, RoleName |-> EmptyStr,
      SimdType |-> EmptyStr ]

Aliases == { << "n", "1" >>, << "n", "2" >> }

(***************************************************************************)
(* State.                                                                  *)
(***************************************************************************)
VARIABLES
    pc,         \* pc[g]: where goroutine g stands
    self,       \* self[g]: the receiver pt of g's current or last call
    via,        \* via[g]: the entry point of that call, "InitOnce" or "Init"
    panicking,  \* panicking[g]: a panic is unwinding g's stack
    how,        \* how[g]: how g's last call ended: none (not yet), normal, panic
    done,       \* once.done
    mu,         \* once.m: 0 when free, else the goroutine holding it
    store,      \* store[t]: the content of t's BaseTable
    fields,     \* fields[t]: the fields of ParamTable t
    written,    \* written[t]: the fields of t an assignment has been made to
    log,        \* log[g]: the store operations and writes of g's call, in order
    bodyRuns,   \* how many times once.Do has invoked its function
    bodyState,  \* state of that invocation: none, running, completed, panicked
    onceSelf,   \* the receiver of that invocation
    env,        \* the configuration the process runs in: what BaseTable.Init()
                \* finds in the environment and advanced/knowhere.yaml on disk;
                \* it stays as it is while a call is under way
    crashed     \* an unrecovered panic has ended the process

vars == << pc, self, via, panicking, how, done, mu, store, fields, written,
           log, bodyRuns, bodyState, onceSelf, env, crashed >>

Ev(op, arg) == [op |-> op, arg |-> arg]

\* var Params ParamTable; var once sync.Once: all zero
InitIn(envs) ==
    /\ env \in envs
    /\ pc = [g \in Callers |-> "idle"]
    /\ self = [g \in Callers |-> Params]
    /\ via = [g \in Callers |-> "none"]
    /\ panicking = [g \in Callers |-> FALSE]
    /\ how = [g \in Callers |-> "none"]
    /\ done = 0
    /\ mu = 0
    /\ store = [t \in Tables |-> EmptyStore]
    /\ fields = [t \in Tables |-> ZeroTable]
    /\ written = [t \in Tables |-> {}]
    /\ log = [g \in Callers |-> << >>]
    /\ bodyRuns = 0
    /\ bodyState = "none"
    /\ onceSelf = "none"
    /\ crashed = FALSE

(***************************************************************************)
(* Control transfer shared by the steps.                                   *)
(***************************************************************************)
\* the call of g returns to its caller without a panic
Return(g) ==
    /\ pc' = [pc EXCEPT ![g] = "idle"]
    /\ how' = [how EXCEPT ![g] = "normal"]

\* the step is done and the next statement of the body is next
Goto(g, next) ==
    /\ pc' = [pc EXCEPT ![g] = next]
    /\ UNCHANGED << how, panicking, bodyState >>

\* panic(err): the rest of the body is skipped; inside once.Do the deferred
\* calls of doSlow run next, otherwise the panic reaches the caller of Init
Raise(g) ==
    /\ pc' = [pc EXCEPT ![g] = IF via[g] = "InitOnce" THEN "StoreDone" ELSE "panicked"]
    /\ panicking' = [panicking EXCEPT ![g] = TRUE]
    /\ bodyState' = IF via[g] = "InitOnce" THEN "panicked" ELSE bodyState
    /\ UNCHANGED how

\* Init returns: to once.Do's doSlow, or to the caller of Init
Finish(g) ==
    IF via[g] = "InitOnce"
    THEN /\ pc' = [pc EXCEPT ![g] = "StoreDone"]
         /\ bodyState' = "completed"
         /\ UNCHANGED << how, panicking >>
    ELSE /\ Return(g)
         /\ UNCHANGED << panicking, bodyState >>

\* one init* function: events are its store operations and writes in the
\* order of the code, wr the assignments it makes to fields of pt
Step(g, at, events, wr, failed, next) ==
    /\ ~crashed
    /\ pc[g] = at
    /\ log' = [log EXCEPT ![g] = @ \o events]
    /\ fields' = [fields EXCEPT ![self[g]] =
                    [f \in DOMAIN @ |->
                        IF \E i \in 1..Len(wr) : wr[i][1] = f
                        THEN wr[CHOOSE i \in 1..Len(wr) : wr[i][1] = f][2]
                        ELSE @[f]]]
    /\ written' = [written EXCEPT ![self[g]] =
                    @ \cup { wr[i][1] : i \in 1..Len(wr) }]
    /\ IF failed THEN Raise(g)
       ELSE IF next = "return" THEN Finish(g)
       ELSE Goto(g, next)
    /\ UNCHANGED << self, via, done, mu, store, bodyRuns, onceSelf, crashed, env >>

\* Direct with the error of Load ignored: a missing key resolves the field to
\* the empty string and Init goes on
DirectErrIgnored(g, at, key, field, next) ==
    Step(g, at, << Ev("Load", key), Ev("Write", field) >>,
         << << field, Load(store[self[g]], key).val >> >>, FALSE, next)

\* a direct lookup: ret, err := pt.Load(key); panic on err; pt.<field> = ret
Direct(g, at, key, field, next) ==
    LET r == Load(store[self[g]], key)
    IN  IF r.err
        THEN Step(g, at, << Ev("Load", key) >>, << >>, TRUE, next)
        ELSE Step(g, at, << Ev("Load", key), Ev("Write", field) >>,
                  << << field, r.val >> >>, FALSE, next)

(***************************************************************************)
(* The public entry points.                                                *)
(***************************************************************************)
\* InitAlias assigning the wrong field
InitAliasWrongField(g, t, alias) ==
    /\ ~crashed
    /\ pc[g] = "idle"
    /\ fields' = [fields EXCEPT ![t].RoleName = alias]
    /\ UNCHANGED << pc, self, via, panicking, how, done, mu, store, written,
                    log, bodyRuns, bodyState, onceSelf, crashed, env >>

\* InitAlias put behind the gate: it takes effect only while once.done is 0
InitAliasGated(g, t, alias) ==
    /\ ~crashed
    /\ pc[g] = "idle"
    /\ done = 0
    /\ fields' = [fields EXCEPT ![t].Alias = alias]
    /\ UNCHANGED << pc, self, via, panicking, how, done, mu, store, written,
                    log, bodyRuns, bodyState, onceSelf, crashed, env >>

\* func (pt *ParamTable) InitAlias(alias string)
InitAlias(g, t, alias) ==
    /\ ~crashed
    /\ pc[g] = "idle"
    /\ fields' = [fields EXCEPT ![t].Alias = alias]
    /\ UNCHANGED << pc, self, via, panicking, how, done, mu, store, written,
                    log, bodyRuns, bodyState, onceSelf, crashed, env >>

\* a goroutine calls pt.InitOnce() on table t
CallInitOnce(g, t) ==
    /\ ~crashed
    /\ pc[g] = "idle"
    /\ pc' = [pc EXCEPT ![g] = "Do"]
    /\ self' = [self EXCEPT ![g] = t]
    /\ via' = [via EXCEPT ![g] = "InitOnce"]
    /\ log' = [log EXCEPT ![g] = << >>]
    /\ how' = [how EXCEPT ![g] = "none"]
    /\ UNCHANGED << panicking, done, mu, store, fields, written,
                    bodyRuns, bodyState, onceSelf, crashed, env >>

\* a goroutine calls pt.Init() on table t, not through the gate
CallInit(g, t) ==
    /\ ~crashed
    /\ pc[g] = "idle"
    /\ pc' = [pc EXCEPT ![g] = "BaseTableInit"]
    /\ self' = [self EXCEPT ![g] = t]
    /\ via' = [via EXCEPT ![g] = "Init"]
    /\ log' = [log EXCEPT ![g] = << >>]
    /\ how' = [how EXCEPT ![g] = "none"]
    /\ UNCHANGED << panicking, done, mu, store, fields, written,
                    bodyRuns, bodyState, onceSelf, crashed, env >>

(***************************************************************************)
(* once.Do(func() { pt.Init() }): sync.Once of the Go standard library.    *)
(***************************************************************************)
\* Do: if atomic.LoadUint32(&o.done) == 0 { o.doSlow(f) }
OnceDo(g) ==
    /\ ~crashed
    /\ pc[g] = "Do"
    /\ IF done = 0
       THEN /\ pc' = [pc EXCEPT ![g] = "Lock"]
            /\ UNCHANGED how
       ELSE Return(g)
    /\ UNCHANGED << self, via, panicking, done, mu, store, fields, written,
                    log, bodyRuns, bodyState, onceSelf, crashed, env >>

\* doSlow: o.m.Lock()
OnceLock(g) ==
    /\ ~crashed
    /\ pc[g] = "Lock"
    /\ mu = 0
    /\ mu' = g
    /\ pc' = [pc EXCEPT ![g] = "Check"]
    /\ UNCHANGED << self, via, panicking, how, done, store, fields, written,
                    log, bodyRuns, bodyState, onceSelf, crashed, env >>

\* doSlow without the second look at o.done under the lock
OnceCheckNoRecheck(g) ==
    /\ ~crashed
    /\ pc[g] = "Check"
    /\ pc' = [pc EXCEPT ![g] = "BaseTableInit"]
    /\ bodyRuns' = bodyRuns + 1
    /\ bodyState' = "running"
    /\ onceSelf' = self[g]
    /\ UNCHANGED << self, via, panicking, how, done, mu, store, fields,
                    written, log, crashed, env >>

\* doSlow: if o.done == 0 { defer atomic.StoreUint32(&o.done, 1); f() }
OnceCheck(g) ==
    /\ ~crashed
    /\ pc[g] = "Check"
    /\ IF done = 0
       THEN /\ pc' = [pc EXCEPT ![g] = "BaseTableInit"]
            /\ bodyRuns' = bodyRuns + 1
            /\ bodyState' = "running"
            /\ onceSelf' = self[g]
       ELSE /\ pc' = [pc EXCEPT ![g] = "Unlock"]
            /\ UNCHANGED << bodyRuns, bodyState, onceSelf >>
    /\ UNCHANGED << self, via, panicking, how, done, mu, store, fields,
                    written, log, crashed, env >>

\* o.done stored after f() instead of in a deferred call: a panic of f
\* leaves the gate open
OnceStoreDoneNotDeferred(g) ==
    /\ ~crashed
    /\ pc[g] = "StoreDone"
    /\ done' = IF panicking[g] THEN done ELSE 1
    /\ pc' = [pc EXCEPT ![g] = "Unlock"]
    /\ UNCHANGED << self, via, panicking, how, mu, store, fields, written,
                    log, bodyRuns, bodyState, onceSelf, crashed, env >>

\* the deferred atomic.StoreUint32(&o.done, 1): it runs when f returns and
\* when f panics
OnceStoreDone(g) ==
    /\ ~crashed
    /\ pc[g] = "StoreDone"
    /\ done' = 1
    /\ pc' = [pc EXCEPT ![g] = "Unlock"]
    /\ UNCHANGED << self, via, panicking, how, mu, store, fields, written,
                    log, bodyRuns, bodyState, onceSelf, crashed, env >>

\* o.m.Unlock() after f() instead of in a deferred call: a panic of f
\* leaves the mutex locked
OnceUnlockNotDeferred(g) ==
    /\ ~crashed
    /\ pc[g] = "Unlock"
    /\ mu' = IF panicking[g] THEN mu ELSE 0
    /\ IF panicking[g]
       THEN /\ pc' = [pc EXCEPT ![g] = "panicked"]
            /\ UNCHANGED how
       ELSE Return(g)
    /\ UNCHANGED << self, via, panicking, done, store, fields, written, log,
                    bodyRuns, bodyState, onceSelf, crashed, env >>

\* the deferred o.m.Unlock(); then Do returns, or the panic goes on to the
\* caller of InitOnce
OnceUnlock(g) ==
    /\ ~crashed
    /\ pc[g] = "Unlock"
    /\ mu' = 0
    /\ IF panicking[g]
       THEN /\ pc' = [pc EXCEPT ![g] = "panicked"]
            /\ UNCHANGED how
       ELSE Return(g)
    /\ UNCHANGED << self, via, panicking, done, store, fields, written, log,
                    bodyRuns, bodyState, onceSelf, crashed, env >>

\* the caller of the panicking call recovers (a deferred recover(), as in a
\* test that expects the panic)
Recover(g) ==
    /\ ~crashed
    /\ pc[g] = "panicked"
    /\ pc' = [pc EXCEPT ![g] = "idle"]
    /\ panicking' = [panicking EXCEPT ![g] = FALSE]
    /\ how' = [how EXCEPT ![g] = "panic"]
    /\ UNCHANGED << self, via, done, mu, store, fields, written, log,
                    bodyRuns, bodyState, onceSelf, crashed, env >>

\* nobody recovers: the runtime ends the process
Crash(g) ==
    /\ ~crashed
    /\ pc[g] = "panicked"
    /\ crashed' = TRUE
    /\ UNCHANGED << pc, self, via, panicking, how, done, mu, store, fields,
                    written, log, bodyRuns, bodyState, onceSelf, env >>

(***************************************************************************)
(* func (pt *ParamTable) Init()                                            *)
(***************************************************************************)
\* pt.BaseTable.Init(): the store is loaded from the environment
BaseTableInit(g) ==
    /\ ~crashed
    /\ pc[g] = "BaseTableInit"
    /\ store' = [store EXCEPT ![self[g]] = env.kv]
    /\ pc' = [pc EXCEPT ![g] = "LoadYaml"]
    /\ UNCHANGED << self, via, panicking, how, done, mu, fields, written, log,
                    bodyRuns, bodyState, onceSelf, crashed, env >>

\* if err := pt.LoadYaml("advanced/knowhere.yaml"); err != nil { panic(err) }
LoadYaml(g) ==
    /\ ~crashed
    /\ pc[g] = "LoadYaml"
    /\ store' = [store EXCEPT ![self[g]] =
                    IF env.yaml.ok THEN MergeYaml(@, env.yaml.doc) ELSE @]
    /\ IF env.yaml.ok THEN Goto(g, "initMinIOAddress") ELSE Raise(g)
    /\ log' = [log EXCEPT ![g] = @ \o << Ev("LoadYaml", "advanced/knowhere.yaml") >>]
    /\ UNCHANGED << self, via, done, mu, fields, written, bodyRuns, onceSelf,
                    crashed, env >>

\* initParams calling initMinIOSecretAccessKey right after initMinIOAddress
initMinIOAddressSkipAccessKeyID(g) ==
    Direct(g, "initMinIOAddress", KMinioAddress, "MinIOAddress",
           "initMinIOSecretAccessKey")

initMinIOAddress(g) ==
    Direct(g, "initMinIOAddress", KMinioAddress, "MinIOAddress",
           "initMinIOAccessKeyID")

initMinIOAccessKeyID(g) ==
    Direct(g, "initMinIOAccessKeyID", KAccessKeyID, "MinIOAccessKeyID",
           "initMinIOSecretAccessKey")

initMinIOSecretAccessKey(g) ==
    Direct(g, "initMinIOSecretAccessKey", KSecretAccessKey,
           "MinIOSecretAccessKey", "initMinIOUseSSL")

\* initMinIOUseSSL with the error of strconv.ParseBool ignored: a value that
\* is no boolean token resolves the field to false and Init goes on
initMinIOUseSSLErrIgnored(g) ==
    LET r == Load(store[self[g]], KUseSSL)
        b == ParseBool(r.val)
    IN  IF r.err
        THEN Step(g, "initMinIOUseSSL", << Ev("Load", KUseSSL) >>, << >>, TRUE,
                  "initMinioBucketName")
        ELSE Step(g, "initMinIOUseSSL",
                  << Ev("Load", KUseSSL), Ev("Write", "MinIOUseSSL") >>,
                  << << "MinIOUseSSL", b.val >> >>, FALSE,
                  "initMinioBucketName")

\* pt.MinIOUseSSL, err = strconv.ParseBool(ret): the field is assigned
\* before err is looked at
initMinIOUseSSL(g) ==
    LET r == Load(store[self[g]], KUseSSL)
        b == ParseBool(r.val)
    IN  IF r.err
        THEN Step(g, "initMinIOUseSSL", << Ev("Load", KUseSSL) >>, << >>, TRUE,
                  "initMinioBucketName")
        ELSE Step(g, "initMinIOUseSSL",
                  << Ev("Load", KUseSSL), Ev("Write", "MinIOUseSSL") >>,
                  << << "MinIOUseSSL", b.val >> >>, b.err,
                  "initMinioBucketName")

initMinioBucketName(g) ==
    Direct(g, "initMinioBucketName", KBucketName, "MinioBucketName",
           "initEtcdEndpoints")

\* initEtcdEndpoints with the empty elements of the split filtered out
initEtcdEndpointsDropEmpty(g) ==
    LET r == Load(store[self[g]], KEtcdEndpoints)
    IN  IF r.err
        THEN Step(g, "initEtcdEndpoints", << Ev("Load", KEtcdEndpoints) >>,
                  << >>, TRUE, "initMetaRootPath")
        ELSE Step(g, "initEtcdEndpoints",
                  << Ev("Load", KEtcdEndpoints), Ev("Write", "EtcdEndpoints") >>,
                  << << "EtcdEndpoints",
                        SelectSeq(SplitOn(r.val, ","), LAMBDA e : e # << >>) >> >>,
                  FALSE, "initMetaRootPath")

\* initEtcdEndpoints with a leading blank of each element trimmed
initEtcdEndpointsTrimmed(g) ==
    LET r == Load(store[self[g]], KEtcdEndpoints)
        es == SplitOn(r.val, ",")
    IN  IF r.err
        THEN Step(g, "initEtcdEndpoints", << Ev("Load", KEtcdEndpoints) >>,
                  << >>, TRUE, "initMetaRootPath")
        ELSE Step(g, "initEtcdEndpoints",
                  << Ev("Load", KEtcdEndpoints), Ev("Write", "EtcdEndpoints") >>,
                  << << "EtcdEndpoints",
                        [i \in 1..Len(es) |->
                            IF es[i] # << >> /\ es[i][1] = " "
                            THEN Tail(es[i]) ELSE es[i]] >> >>,
                  FALSE, "initMetaRootPath")

initEtcdEndpoints(g) ==
    LET r == Load(store[self[g]], KEtcdEndpoints)
    IN  IF r.err
        THEN Step(g, "initEtcdEndpoints", << Ev("Load", KEtcdEndpoints) >>,
                  << >>, TRUE, "initMetaRootPath")
        ELSE Step(g, "initEtcdEndpoints",
                  << Ev("Load", KEtcdEndpoints), Ev("Write", "EtcdEndpoints") >>,
                  << << "EtcdEndpoints", SplitOn(r.val, ",") >> >>, FALSE,
                  "initMetaRootPath")

\* initMetaRootPath with the two segments joined the wrong way round
initMetaRootPathSwapped(g) ==
    LET rootPath == Load(store[self[g]], KEtcdRootPath)
        subPath == Load(store[self[g]], KMetaSubPath)
    IN  IF rootPath.err
        THEN Step(g, "initMetaRootPath", << Ev("Load", KEtcdRootPath) >>,
                  << >>, TRUE, "initIndexRootPath")
        ELSE IF subPath.err
        THEN Step(g, "initMetaRootPath",
                  << Ev("Load", KEtcdRootPath), Ev("Load", KMetaSubPath) >>,
                  << >>, TRUE, "initIndexRootPath")
        ELSE Step(g, "initMetaRootPath",
                  << Ev("Load", KEtcdRootPath), Ev("Load", KMetaSubPath),
                     Ev("Write", "MetaRootPath") >>,
                  << << "MetaRootPath", PathJoin(subPath.val, rootPath.val) >> >>,
                  FALSE, "initIndexRootPath")

initMetaRootPath(g) ==
    LET rootPath == Load(store[self[g]], KEtcdRootPath)
        subPath == Load(store[self[g]], KMetaSubPath)
    IN  IF rootPath.err
        THEN Step(g, "initMetaRootPath", << Ev("Load", KEtcdRootPath) >>,
                  << >>, TRUE, "initIndexRootPath")
        ELSE IF subPath.err
        THEN Step(g, "initMetaRootPath",
                  << Ev("Load", KEtcdRootPath), Ev("Load", KMetaSubPath) >>,
                  << >>, TRUE, "initIndexRootPath")
        ELSE Step(g, "initMetaRootPath",
                  << Ev("Load", KEtcdRootPath), Ev("Load", KMetaSubPath),
                     Ev("Write", "MetaRootPath") >>,
                  << << "MetaRootPath", PathJoin(rootPath.val, subPath.val) >> >>,
                  FALSE, "initIndexRootPath")

\* initParams without its call of initRoleName
initIndexRootPathSkipRoleName(g) ==
    LET rootPath == Load(store[self[g]], KMinioRootPath)
    IN  IF rootPath.err
        THEN Step(g, "initIndexRootPath", << Ev("Load", KMinioRootPath) >>,
                  << >>, TRUE, "initKnowhereSimdType")
        ELSE Step(g, "initIndexRootPath",
                  << Ev("Load", KMinioRootPath), Ev("Write", "IndexRootPath") >>,
                  << << "IndexRootPath", PathJoin(rootPath.val, IndexFiles) >> >>,
                  FALSE, "initKnowhereSimdType")

initIndexRootPath(g) ==
    LET rootPath == Load(store[self[g]], KMinioRootPath)
    IN  IF rootPath.err
        THEN Step(g, "initIndexRootPath", << Ev("Load", KMinioRootPath) >>,
                  << >>, TRUE, "initRoleName")
        ELSE Step(g, "initIndexRootPath",
                  << Ev("Load", KMinioRootPath), Ev("Write", "IndexRootPath") >>,
                  << << "IndexRootPath", PathJoin(rootPath.val, IndexFiles) >> >>,
                  FALSE, "initRoleName")

initRoleName(g) ==
    Step(g, "initRoleName", << Ev("Write", "RoleName") >>,
         << << "RoleName", IndexNode >> >>, FALSE, "initKnowhereSimdType")

\* initKnowhereSimdType with the value of the store ignored: the field gets
\* the default whatever the lookup returns
initKnowhereSimdTypeAlwaysDefault(g) ==
    LET simdType == LoadWithDefault(store[self[g]], KSimdType, Auto)
    IN  IF simdType.err
        THEN Step(g, "initKnowhereSimdType",
                  << Ev("LoadWithDefault", KSimdType) >>, << >>, TRUE, "return")
        ELSE Step(g, "initKnowhereSimdType",
                  << Ev("LoadWithDefault", KSimdType), Ev("Write", "SimdType") >>,
                  << << "SimdType", Auto >> >>, FALSE, "return")

initKnowhereSimdType(g) ==
    LET simdType == LoadWithDefault(store[self[g]], KSimdType, Auto)
    IN  IF simdType.err
        THEN Step(g, "initKnowhereSimdType",
                  << Ev("LoadWithDefault", KSimdType) >>, << >>, TRUE, "return")
        ELSE Step(g, "initKnowhereSimdType",
                  << Ev("LoadWithDefault", KSimdType), Ev("Write", "SimdType") >>,
                  << << "SimdType", simdType.val >> >>, FALSE, "return")

(***************************************************************************)
(* The specifications.                                                     *)
(***************************************************************************)
\* the statements of Init after pt.BaseTable.Init(), for goroutine g
InitBody(g) ==
    \/ LoadYaml(g)
    \/ initMinIOAddress(g)
    \/ initMinIOAccessKeyID(g)
    \/ initMinIOSecretAccessKey(g)
    \/ initMinIOUseSSL(g)
    \/ initMinioBucketName(g)
    \/ initEtcdEndpoints(g)
    \/ initMetaRootPath(g)
    \/ initIndexRootPath(g)
    \/ initRoleName(g)
    \/ initKnowhereSimdType(g)

\* the gate: any number of goroutines call InitOnce and InitAlias on any
\* table, at any time
Next ==
    \E g \in Callers :
        \/ \E t \in Tables : CallInitOnce(g, t)
        \/ \E t \in Tables, a \in Aliases : InitAlias(g, t, a)
        \/ OnceDo(g)
        \/ OnceLock(g)
        \/ OnceCheck(g)
        \/ OnceStoreDone(g)
        \/ OnceUnlock(g)
        \/ Recover(g)
        \/ Crash(g)
        \/ BaseTableInit(g)
        \/ InitBody(g)

Init == InitIn(Envs)

Spec == Init /\ [][Next]_vars

\* the three public operations on the process-wide Params, the gate included
NextPublic ==
    \E g \in Callers :
        \/ CallInitOnce(g, Params)
        \/ CallInit(g, Params)
        \/ \E a \in Aliases : InitAlias(g, Params, a)
        \/ OnceDo(g)
        \/ OnceLock(g)
        \/ OnceCheck(g)
        \/ OnceStoreDone(g)
        \/ OnceUnlock(g)
        \/ Recover(g)
        \/ Crash(g)
        \/ BaseTableInit(g)
        \/ InitBody(g)

SpecPublic == Init /\ [][NextPublic]_vars

(***************************************************************************)
(* The gate under fair scheduling: a goroutine that is inside a call and   *)
(* can take its next step eventually takes it.  Store operations return    *)
(* (each is one step), and a panic that has left the call is recovered or  *)
(* ends the process.  Nothing obliges a goroutine to make a new call.      *)
(***************************************************************************)
\* the next step of goroutine g inside its call
Proceed(g) ==
    \/ OnceDo(g)
    \/ OnceLock(g)
    \/ OnceCheck(g)
    \/ OnceStoreDone(g)
    \/ OnceUnlock(g)
    \/ BaseTableInit(g)
    \/ InitBody(g)
    \/ Recover(g)
    \/ Crash(g)

\* Init runs to its end, panics in the middle of initParams, or panics at
\* LoadYaml
FairEnvs ==
    { Env(GoodStore, YamlNoKey),
      Env(Without(GoodStore, KBucketName), YamlNoKey),
      Env(GoodStore, YamlMissing) }

\* any goroutine calls InitOnce on Params at any time, again and again
NextFair ==
    \E g \in Callers : CallInitOnce(g, Params) \/ Proceed(g)

SpecFair ==
    /\ InitIn(FairEnvs)
    /\ [][NextFair]_vars
    /\ \A g \in Callers : WF_vars(Proceed(g))

(***************************************************************************)
(* The derivation rules: one goroutine calls Init on Params, in every      *)
(* environment of ResolveEnvs.                                             *)
(***************************************************************************)
PathAlphabet == { "a", "/", "." }

\* the strings over PathAlphabet of length at most n
RECURSIVE PathStringsUpTo(_)
PathStringsUpTo(n) ==
    IF n = 0 THEN { << >> }
    ELSE LET shorter == PathStringsUpTo(n - 1)
         IN  shorter \cup { Append(p, c) : p \in shorter, c \in PathAlphabet }

PathStrings == PathStringsUpTo(MaxPathLen)

\* every pair of path segments; minio.rootPath is the same root
PathEnvs ==
    { Env([k \in RequiredKeys |->
              IF k \in { KEtcdRootPath, KMinioRootPath } THEN r
              ELSE IF k = KMetaSubPath THEN sp
              ELSE GoodStore[k]],
          YamlNoKey) : r \in PathStrings, sp \in PathStrings }

\* each required key missing in turn
MissingEnvs == { Env(Without(GoodStore, k), YamlNoKey) : k \in RequiredKeys }

BoolStrings ==
    TrueTokens \cup FalseTokens
    \cup { << >>, << "n", "o" >>, << "y", "e", "s" >>, << "t", "R", "U", "E" >>,
           << "t", "r", "u", "e", " " >>,
           << "n", "o", "t", "a", "b", "o", "o", "l" >> }

BoolEnvs == { Env(With(GoodStore, KUseSSL, b), YamlNoKey) : b \in BoolStrings }

EndpointStrings ==
    { << >>, << "h" >>, << "," >>, << "h", "," >>, << ",", "h" >>,
      << "h", ",", " ", "g" >>, << "h", ",", ",", "g" >>,
      << "h", ",", "g", ",", "h" >> }

EndpointEnvs ==
    { Env(With(GoodStore, KEtcdEndpoints, e), YamlNoKey) : e \in EndpointStrings }

SimdStrings == { << >>, Auto, << "a", "v", "x" >>, << " " >> }

\* knowhere.simdType in no layer, in the YAML document, in an override
\* layer, or in both; and the document missing
SimdEnvs ==
    { Env(GoodStore, YamlNoKey), Env(GoodStore, YamlMissing) }
    \cup { Env(GoodStore, YamlSimd(v)) : v \in SimdStrings }
    \cup { Env(With(GoodStore, KSimdType, v), YamlNoKey) : v \in SimdStrings }
    \cup { Env(With(GoodStore, KSimdType, v), YamlSimd(Auto)) : v \in SimdStrings }

ResolveEnvs ==
    PathEnvs \cup MissingEnvs \cup BoolEnvs \cup EndpointEnvs \cup SimdEnvs
    \cup Envs

FirstCaller == CHOOSE g \in Callers : \A h \in Callers : g <= h

NextResolve ==
    \/ CallInit(FirstCaller, Params)
    \/ BaseTableInit(FirstCaller)
    \/ InitBody(FirstCaller)
    \/ Recover(FirstCaller)
    \/ Crash(FirstCaller)

SpecResolve == InitIn(ResolveEnvs) /\ [][NextResolve]_vars

(***************************************************************************)
(* Init called again after the configuration has changed: between two      *)
(* calls of Init the environment is replaced by another one of ReinitEnvs. *)
(***************************************************************************)
ReinitEnvs ==
    { Env(GoodStore, YamlNoKey),
      Env(OtherStore, YamlSimd(Auto)),
      Env(With(GoodStore, KUseSSL, << "n", "o", "t", "a", "b", "o", "o", "l" >>),
          YamlNoKey),
      Env(Without(GoodStore, KMetaSubPath), YamlNoKey),
      Env(Without(OtherStore, KMinioAddress), YamlNoKey) }

\* the environment changes (os.Setenv, a new configuration file) while no
\* call is under way
Setenv(e) ==
    /\ ~crashed
    /\ \A g \in Callers : pc[g] = "idle"
    /\ e # env
    /\ env' = e
    /\ UNCHANGED << pc, self, via, panicking, how, done, mu, store, fields,
                    written, log, bodyRuns, bodyState, onceSelf, crashed >>

NextReinit ==
    \/ CallInit(FirstCaller, Params)
    \/ BaseTableInit(FirstCaller)
    \/ InitBody(FirstCaller)
    \/ Recover(FirstCaller)
    \/ Crash(FirstCaller)
    \/ \E e \in ReinitEnvs : Setenv(e)

SpecReinit == InitIn(ReinitEnvs) /\ [][NextReinit]_vars

(***************************************************************************)
(* Vocabulary of the properties.                                           *)
(***************************************************************************)
BodyPcs == { "BaseTableInit", "LoadYaml", "initMinIOAddress",
             "initMinIOAccessKeyID", "initMinIOSecretAccessKey",
             "initMinIOUseSSL", "initMinioBucketName", "initEtcdEndpoints",
             "initMetaRootPath", "initIndexRootPath", "initRoleName",
             "initKnowhereSimdType" }

\* g's last call was op, and it has ended the way h says
Returned(g, op, h) == pc[g] = "idle" /\ via[g] = op /\ how[g] = h

\* g's call of InitOnce is over: it returned, or it left by a panic
OnceCallOver(g) ==
    /\ via[g] = "InitOnce"
    /\ \/ pc[g] = "idle" /\ how[g] # "none"
       \/ pc[g] = "panicked"

FullyResolved(t) == written[t] = ResolvedFields

\* no goroutine is inside Init on table t
Quiescent(t) == \A g \in Callers : ~(pc[g] \in BodyPcs /\ self[g] = t)

(***************************************************************************)
(* C1: for N concurrent calls of InitOnce, the body (Init) is executed     *)
(* exactly once in total: never twice, and never zero times once some      *)
(* call of InitOnce is over.                                               *)
(***************************************************************************)
C1_BodyExactlyOnce ==
    /\ bodyRuns <= 1
    /\ (\E g \in Callers : OnceCallOver(g)) => bodyRuns = 1

\* two callers were in InitOnce at the same time and both calls are over
C1_Witness ==
    /\ bodyRuns = 1
    /\ \E g, h \in Callers :
        /\ g # h
        /\ Returned(g, "InitOnce", "normal")
        /\ Returned(h, "InitOnce", "normal")
        /\ log[g] # << >>
        /\ done = 1

(***************************************************************************)
(* C2: no call of InitOnce returns while the body is still running: every  *)
(* caller returns only after the last step of Init has completed (or the   *)
(* process has aborted), so a caller that has returned never sees a        *)
(* snapshot of which only some fields are resolved.                        *)
(***************************************************************************)
C2_ReturnOnlyAfterCompletedBody ==
    \A g \in Callers :
        (Returned(g, "InitOnce", "normal") /\ ~crashed)
            => /\ bodyState = "completed"
               /\ FullyResolved(onceSelf)

(***************************************************************************)
(* C3: whenever a call of InitOnce returns normally after an Init that     *)
(* ran to its end, the ParamTable the call was made on is fully resolved,  *)
(* for the first call and for every later one, on whichever instance.      *)
(***************************************************************************)
C3_ReturnedTableResolved ==
    \A g \in Callers :
        (Returned(g, "InitOnce", "normal") /\ bodyState = "completed")
            => FullyResolved(self[g])

(***************************************************************************)
(* C4: there is no partial-success state: whenever a caller has control    *)
(* back from its call and nobody is inside Init on that table, the table   *)
(* is fully resolved or has no resolved field, also after an abort.        *)
(***************************************************************************)
C4_NoPartialSnapshot ==
    \A g \in Callers :
        (pc[g] = "idle" /\ how[g] # "none" /\ ~crashed /\ Quiescent(self[g]))
            => written[self[g]] \in { {}, ResolvedFields }

(***************************************************************************)
(* C7: the gate cannot be re-armed: once the body has been started, no     *)
(* later call of InitOnce starts it again, whether it completed or         *)
(* aborted.                                                                *)
(***************************************************************************)
C7_NeverRearmed == [][bodyRuns >= 1 => bodyRuns' = bodyRuns]_vars

\* the body aborted, the panic was recovered, and a call of InitOnce made
\* afterwards has returned
C7_Witness ==
    /\ bodyState = "panicked"
    /\ bodyRuns = 1
    /\ \E g, h \in Callers :
        /\ g # h
        /\ Returned(g, "InitOnce", "panic")
        /\ Returned(h, "InitOnce", "normal")

(***************************************************************************)
(* C5: every failure inside Init is fatal at the step where it happens:    *)
(* when LoadYaml fails, when Load of a required key fails or when the      *)
(* coercion of minio.useSSL fails, Init panics at that step; the step is   *)
(* not retried, no value is substituted for the field of the failed        *)
(* lookup, and no later step of Init is executed.                          *)
(***************************************************************************)
IsBool(v) == v \in TrueTokens \cup FalseTokens

\* whether the statement at position p fails on store st
StepFails(p, st) ==
    CASE p = "LoadYaml" -> ~env.yaml.ok
      [] p = "initMinIOAddress" -> KMinioAddress \notin DOMAIN st
      [] p = "initMinIOAccessKeyID" -> KAccessKeyID \notin DOMAIN st
      [] p = "initMinIOSecretAccessKey" -> KSecretAccessKey \notin DOMAIN st
      [] p = "initMinIOUseSSL" ->
            KUseSSL \notin DOMAIN st \/ ~IsBool(st[KUseSSL])
      [] p = "initMinioBucketName" -> KBucketName \notin DOMAIN st
      [] p = "initEtcdEndpoints" -> KEtcdEndpoints \notin DOMAIN st
      [] p = "initMetaRootPath" ->
            KEtcdRootPath \notin DOMAIN st \/ KMetaSubPath \notin DOMAIN st
      [] p = "initIndexRootPath" -> KMinioRootPath \notin DOMAIN st
      [] OTHER -> FALSE

\* the fields whose value comes from a lookup that can be missing
LookupFields == ResolvedFields \ { "MinIOUseSSL", "RoleName", "SimdType" }

C5_FailureIsFatalAtItsStep ==
    /\ [][\A g \in Callers :
            (pc[g] \in BodyPcs /\ pc'[g] # pc[g]
                /\ StepFails(pc[g], store[self[g]]))
            => /\ panicking'[g]
               /\ pc'[g] \in { "StoreDone", "panicked" }
               /\ \A f \in LookupFields :
                    /\ fields'[self[g]][f] = fields[self[g]][f]
                    /\ (f \in written'[self[g]]) = (f \in written[self[g]])]_vars
    /\ [][\A g \in Callers : panicking[g] => pc'[g] \notin BodyPcs]_vars

\* Init has panicked at a Load in the middle of initParams
C5_Witness ==
    \E g \in Callers :
        /\ pc[g] = "panicked"
        /\ via[g] = "Init"
        /\ log[g] # << >>
        /\ log[g][Len(log[g])] = Ev("Load", KBucketName)
        /\ written[self[g]] = { "MinIOAddress", "MinIOAccessKeyID",
                                "MinIOSecretAccessKey", "MinIOUseSSL" }

(***************************************************************************)
(* C6, as claimed: once InitOnce has completed successfully, no later      *)
(* step of InitOnce, Init or InitAlias changes any field of the snapshot.  *)
(***************************************************************************)
C6_SnapshotFrozen ==
    [][(bodyState = "completed"
            /\ \E g \in Callers : Returned(g, "InitOnce", "normal"))
        => fields'[onceSelf] = fields[onceSelf]]_vars

(***************************************************************************)
(* C6, amended: once Init has run to its end inside InitOnce, a step that  *)
(* changes a field of the snapshot other than Alias is a step of a direct  *)
(* call of Init on that table; InitOnce and InitAlias change none of them, *)
(* and no field is ever un-resolved.                                       *)
(***************************************************************************)
C6_OnlyAliasChanges ==
    [][bodyState = "completed" =>
        /\ written[onceSelf] \subseteq written'[onceSelf]
        /\ \A f \in (DOMAIN ZeroTable) \ { "Alias" } :
            \/ fields'[onceSelf][f] = fields[onceSelf][f]
            \/ \E g \in Callers :
                /\ via[g] = "Init"
                /\ self[g] = onceSelf
                /\ pc[g] \in BodyPcs
                /\ pc'[g] # pc[g]]_vars

\* after the successful InitOnce: an alias has been set on the snapshot, a
\* direct Init on it has returned, and so has another call of InitOnce
C6_Witness ==
    /\ bodyState = "completed"
    /\ fields[onceSelf].Alias \in Aliases
    /\ \E g, h \in Callers :
        /\ g # h
        /\ Returned(g, "Init", "normal")
        /\ self[g] = onceSelf
        /\ Returned(h, "InitOnce", "normal")

(***************************************************************************)
(* C8: Init performs its steps in a fixed order: the YAML document is      *)
(* loaded before any parameter is looked up; the inputs of a composite     *)
(* field are looked up before the field is written; SimdType is resolved   *)
(* last, after every other parameter.                                      *)
(***************************************************************************)
\* event e occurs in l before position i
Before(l, e, i) == \E j \in 1..(i - 1) : l[j] = e

C8_FixedOrder ==
    \A g \in Callers :
        \A i \in 1..Len(log[g]) :
            LET e == log[g][i]
            IN  /\ e.op \in { "Load", "LoadWithDefault", "Write" }
                    => log[g][1].op = "LoadYaml"
                /\ e = Ev("Write", "MetaRootPath")
                    => /\ Before(log[g], Ev("Load", KEtcdRootPath), i)
                       /\ Before(log[g], Ev("Load", KMetaSubPath), i)
                /\ e = Ev("Write", "IndexRootPath")
                    => Before(log[g], Ev("Load", KMinioRootPath), i)
                /\ e.arg \in { KSimdType, "SimdType" }
                    => \A f \in ResolvedFields \ { "SimdType" } :
                            Before(log[g], Ev("Write", f), i)
                /\ e = Ev("Write", "SimdType") => i = Len(log[g])

\* a whole Init has run
C8_Witness ==
    \E g \in Callers :
        /\ Returned(g, "Init", "normal")
        /\ log[g] # << >>
        /\ log[g][Len(log[g])] = Ev("Write", "SimdType")

(***************************************************************************)
(* C9: after every successful initialization SimdType is a non-empty       *)
(* string, whatever the store holds for knowhere.simdType.                 *)
(***************************************************************************)
C9_SimdTypeNonEmpty ==
    \A g \in Callers :
        Returned(g, "Init", "normal") => fields[self[g]].SimdType # EmptyStr

(***************************************************************************)
(* C10: path composition.                                                  *)
(***************************************************************************)
RECURSIVE TrimLeft(_)
\* s without its leading separators
TrimLeft(s) == IF s # << >> /\ s[1] = "/" THEN TrimLeft(Tail(s)) ELSE s

RECURSIVE TrimRight(_)
\* s without its trailing separators
TrimRight(s) ==
    IF s # << >> /\ s[Len(s)] = "/"
    THEN TrimRight(SubSeq(s, 1, Len(s) - 1))
    ELSE s

Core(s) == TrimLeft(TrimRight(s))

Rooted(s) == s # << >> /\ s[1] = "/"

\* the two segments with exactly one separator between them
OneSeparator(a, b) == TrimRight(a) \o << "/" >> \o TrimLeft(b)

\* apart from leading and trailing separators, s is one or more names
\* separated by single separators, none of them "." or ".."
PlainSegment(s) ==
    /\ Core(s) # << >>
    /\ LET es == SplitOn(Core(s), "/")
       IN  \A i \in 1..Len(es) : es[i] \notin { << >>, << "." >>, << ".", "." >> }

\* a plain segment as path.Join leaves it when it comes first
Normal(s) == (IF Rooted(s) THEN << "/" >> ELSE << >>) \o Core(s)

(***************************************************************************)
(* C10, as claimed: for every pair of segments MetaRootPath and            *)
(* IndexRootPath are the two segments concatenated with exactly one        *)
(* separator between them, whatever separators the inputs carry.           *)
(***************************************************************************)
C10_ExactlyOneSeparator ==
    \A g \in Callers :
        Returned(g, "Init", "normal") =>
            LET st == store[self[g]]
            IN  /\ fields[self[g]].MetaRootPath
                    = OneSeparator(st[KEtcdRootPath], st[KMetaSubPath])
                /\ fields[self[g]].IndexRootPath
                    = OneSeparator(st[KMinioRootPath], IndexFiles)

(***************************************************************************)
(* C10, amended: for plain segments (names separated by single             *)
(* separators, apart from leading and trailing separators) MetaRootPath    *)
(* and IndexRootPath are the root without its trailing separators, one     *)
(* separator, and the second segment without leading and trailing          *)
(* separators; an empty root is dropped and no separator is put in front   *)
(* of the second segment.                                                  *)
(***************************************************************************)
C10_PathJoin ==
    \A g \in Callers :
        Returned(g, "Init", "normal") =>
            LET st == store[self[g]]
                root == st[KEtcdRootPath]
                sub == st[KMetaSubPath]
                mroot == st[KMinioRootPath]
                pt == fields[self[g]]
            IN  /\ (PlainSegment(root) /\ PlainSegment(sub))
                    => pt.MetaRootPath = Normal(root) \o << "/" >> \o Core(sub)
                /\ (root = << >> /\ PlainSegment(sub))
                    => pt.MetaRootPath = Normal(sub)
                /\ PlainSegment(mroot)
                    => pt.IndexRootPath = Normal(mroot) \o << "/" >> \o IndexFiles
                /\ mroot = << >> => pt.IndexRootPath = IndexFiles

\* a root with a trailing and a sub-path with a leading separator joined
C10_Witness ==
    \E g \in Callers :
        /\ Returned(g, "Init", "normal")
        /\ store[self[g]][KEtcdRootPath] = << "a", "/" >>
        /\ store[self[g]][KMetaSubPath] = << "/", "a" >>
        /\ fields[self[g]].MetaRootPath = << "a", "/", "a" >>
        /\ fields[self[g]].IndexRootPath = << "a", "/" >> \o IndexFiles

(***************************************************************************)
(* C11: after every successful initialization EtcdEndpoints has at least   *)
(* one element, whatever the value of _EtcdEndpoints; an empty source      *)
(* string gives exactly one element, the empty string, which is kept.      *)
(***************************************************************************)
C11_EndpointsNeverEmpty ==
    \A g \in Callers :
        Returned(g, "Init", "normal") =>
            LET src == store[self[g]][KEtcdEndpoints]
                eps == fields[self[g]].EtcdEndpoints
            IN  /\ Len(eps) >= 1
                /\ src = EmptyStr => eps = << EmptyStr >>

\* Init has succeeded on an empty _EtcdEndpoints
C11_Witness ==
    \E g \in Callers :
        /\ Returned(g, "Init", "normal")
        /\ store[self[g]][KEtcdEndpoints] = EmptyStr
        /\ fields[self[g]].EtcdEndpoints = << EmptyStr >>
        /\ "EtcdEndpoints" \in written[self[g]]

(***************************************************************************)
(* C12: fallback lookup.  When knowhere.simdType is in no layer (neither   *)
(* the environment nor advanced/knowhere.yaml), Init does not panic at     *)
(* initKnowhereSimdType and SimdType is exactly "auto"; when the key is    *)
(* present with value v, SimdType is exactly v.                            *)
(***************************************************************************)
\* knowhere.simdType is in no layer of the configuration
SimdTypeAbsent ==
    KSimdType \notin (DOMAIN env.kv) \cup (DOMAIN env.yaml.doc)

C12_FallbackLookup ==
    \A g \in Callers :
        /\ (pc[g] = "panicked" /\ log[g] # << >>)
            => log[g][Len(log[g])].op # "LoadWithDefault"
        /\ Returned(g, "Init", "normal") =>
            LET st == store[self[g]]
                pt == fields[self[g]]
            IN  /\ SimdTypeAbsent => pt.SimdType = Auto
                /\ KSimdType \in DOMAIN st => pt.SimdType = st[KSimdType]
                /\ "SimdType" \in written[self[g]]

\* Init has succeeded without the key and SimdType is the default
C12_Witness ==
    \E g \in Callers :
        /\ Returned(g, "Init", "normal")
        /\ SimdTypeAbsent
        /\ KSimdType \notin DOMAIN store[self[g]]
        /\ fields[self[g]].SimdType = Auto
        /\ log[g][Len(log[g]) - 1] = Ev("LoadWithDefault", KSimdType)

(***************************************************************************)
(* C13: delimited-list split.  After a successful Init, EtcdEndpoints is   *)
(* the value of _EtcdEndpoints cut at every comma, in source order, with   *)
(* nothing trimmed or dropped: it has (number of commas + 1) elements,     *)
(* no element contains a comma, and joining the elements with commas       *)
(* gives back the source string.                                           *)
(***************************************************************************)
\* the number of commas of s
Commas(s) == Cardinality({ i \in 1..Len(s) : s[i] = "," })

C13_SplitAtEveryComma ==
    \A g \in Callers :
        Returned(g, "Init", "normal") =>
            LET src == store[self[g]][KEtcdEndpoints]
                eps == fields[self[g]].EtcdEndpoints
            IN  /\ Len(eps) = Commas(src) + 1
                /\ \A i \in 1..Len(eps) : Commas(eps[i]) = 0
                /\ JoinWith(eps, ",") = src
                /\ src = << "h", ",", "g" >> => eps = << << "h" >>, << "g" >> >>

\* a source with an empty element in the middle has been split in three
C13_Witness ==
    \E g \in Callers :
        /\ Returned(g, "Init", "normal")
        /\ store[self[g]][KEtcdEndpoints] = << "h", ",", ",", "g" >>
        /\ fields[self[g]].EtcdEndpoints = << << "h" >>, << >>, << "g" >> >>

(***************************************************************************)
(* C14: boolean coercion of minio.useSSL.  The step initMinIOUseSSL on     *)
(* the value "true" sets MinIOUseSSL to true and Init goes on; on "false"  *)
(* it sets it to false and Init goes on; on a value that is no boolean     *)
(* token ("notabool") Init panics at that step, so no Init that returns    *)
(* has resolved such a value to a boolean.                                 *)
(***************************************************************************)
StrTrue == << "t", "r", "u", "e" >>
StrFalse == << "f", "a", "l", "s", "e" >>
NotABool == << "n", "o", "t", "a", "b", "o", "o", "l" >>

C14_BooleanCoercion ==
    /\ [][\A g \in Callers :
            (/\ pc[g] = "initMinIOUseSSL"
             /\ pc'[g] # pc[g]
             /\ KUseSSL \in DOMAIN store[self[g]])
            => LET v == store[self[g]][KUseSSL]
                   went == ~panicking'[g] /\ pc'[g] = "initMinioBucketName"
               IN  /\ v = StrTrue => (went /\ fields'[self[g]].MinIOUseSSL = TRUE)
                   /\ v = StrFalse => (went /\ fields'[self[g]].MinIOUseSSL = FALSE)
                   /\ IsBool(v) => went
                   /\ ~IsBool(v) =>
                        /\ panicking'[g]
                        /\ pc'[g] \in { "StoreDone", "panicked" }]_vars
    /\ [][\A g \in Callers :
            (pc'[g] = "idle" /\ how'[g] = "normal" /\ via'[g] = "Init"
                /\ KUseSSL \in DOMAIN store'[self[g]])
            => IsBool(store'[self[g]][KUseSSL])]_vars

\* Init has panicked at the coercion of "notabool"
C14_Witness ==
    \E g \in Callers :
        /\ pc[g] = "panicked"
        /\ via[g] = "Init"
        /\ KUseSSL \in DOMAIN store[self[g]]
        /\ store[self[g]][KUseSSL] = NotABool
        /\ Len(log[g]) >= 2
        /\ log[g][Len(log[g]) - 1] = Ev("Load", KUseSSL)
        /\ "MinioBucketName" \notin written[self[g]]

(***************************************************************************)
(* C15: InitAlias(a) can be called by a goroutine that is not inside a     *)
(* call in every state of the running process: before, during and after    *)
(* InitOnce, whatever the gate's state.  The call sets Alias to a, leaves  *)
(* the gate (once.done, once.m, the run of the body) as it is and leaves   *)
(* every other field of every table unchanged.  No other step changes      *)
(* Alias, so the value of the last call is the one that stays.             *)
(***************************************************************************)
C15_InitAliasFrame ==
    /\ [][\A g \in Callers, a \in Aliases :
            (~crashed /\ pc[g] = "idle") => ENABLED InitAlias(g, Params, a)]_vars
    /\ [][\A g \in Callers, a \in Aliases :
            InitAlias(g, Params, a)
            => /\ fields'[Params].Alias = a
               /\ \A f \in (DOMAIN ZeroTable) \ { "Alias" } :
                    fields'[Params][f] = fields[Params][f]
               /\ \A t \in Tables \ { Params } : fields'[t] = fields[t]
               /\ written' = written
               /\ << done, mu, bodyRuns, bodyState, onceSelf >>'
                    = << done, mu, bodyRuns, bodyState, onceSelf >>
               /\ pc' = pc]_vars
    /\ [][fields'[Params].Alias # fields[Params].Alias
            => \E g \in Callers, a \in Aliases : InitAlias(g, Params, a)]_vars

\* an alias is set on Params while a goroutine is inside the body of
\* InitOnce on it and has already written fields
C15_Witness ==
    /\ fields[Params].Alias \in Aliases
    /\ written[Params] # {}
    /\ \E g \in Callers :
        /\ pc[g] \in BodyPcs
        /\ via[g] = "InitOnce"
        /\ self[g] = Params
        /\ bodyState = "running"

(***************************************************************************)
(* C16: after a successful Init every derived field of the table has been  *)
(* assigned by its derivation rule; in particular Address has been         *)
(* assigned the value of a store lookup and is no longer the zero value    *)
(* it had before Init.                                                     *)
(***************************************************************************)
C16_EveryDerivedFieldResolved ==
    \A g \in Callers :
        Returned(g, "Init", "normal") =>
            /\ ResolvedFields \subseteq written[self[g]]
            /\ "Address" \in written[self[g]]
            /\ fields[self[g]].Address # ZeroTable.Address

(***************************************************************************)
(* C17: in every state of an Init, the state at a panic included, the set  *)
(* of fields written so far is a prefix of the sequence MinIOAddress,      *)
(* MinIOAccessKeyID, MinIOSecretAccessKey, MinIOUseSSL, MinioBucketName,   *)
(* EtcdEndpoints, MetaRootPath, IndexRootPath, RoleName, SimdType; a step  *)
(* writes a field only when every earlier field has been written.          *)
(***************************************************************************)
\* the first k fields of the sequence
Prefix(k) == { FieldOrder[i] : i \in 1..k }

\* the position of field f in the sequence
Position(f) == CHOOSE i \in 1..Len(FieldOrder) : FieldOrder[i] = f

C17_WrittenIsPrefix ==
    /\ [][\A t \in Tables :
            \E k \in 0..Len(FieldOrder) : written'[t] = Prefix(k)]_vars
    /\ [][\A t \in Tables :
            \A f \in written'[t] \ written[t] :
                written[t] = Prefix(Position(f) - 1)]_vars

\* Init has panicked at the sixth step with the first five fields written
C17_Witness ==
    \E g \in Callers :
        /\ pc[g] = "panicked"
        /\ via[g] = "Init"
        /\ written[self[g]] = Prefix(5)
        /\ log[g][Len(log[g])] = Ev("Load", KEtcdEndpoints)

(***************************************************************************)
(* C18: a step of Init that fails leaves the field it targets unchanged:   *)
(* for every init* step, the coercion of minio.useSSL and the two lookups  *)
(* of MetaRootPath included, when the step panics the target field holds   *)
(* the value it had before the step started.                               *)
(***************************************************************************)
\* the field the step at position p assigns
Target(p) ==
    CASE p = "initMinIOAddress" -> "MinIOAddress"
      [] p = "initMinIOAccessKeyID" -> "MinIOAccessKeyID"
      [] p = "initMinIOSecretAccessKey" -> "MinIOSecretAccessKey"
      [] p = "initMinIOUseSSL" -> "MinIOUseSSL"
      [] p = "initMinioBucketName" -> "MinioBucketName"
      [] p = "initEtcdEndpoints" -> "EtcdEndpoints"
      [] p = "initMetaRootPath" -> "MetaRootPath"
      [] p = "initIndexRootPath" -> "IndexRootPath"
      [] p = "initRoleName" -> "RoleName"
      [] p = "initKnowhereSimdType" -> "SimdType"

StepPcs == BodyPcs \ { "BaseTableInit", "LoadYaml" }

C18_FailedStepKeepsField ==
    [][\A g \in Callers :
        (pc[g] \in StepPcs /\ ~panicking[g] /\ panicking'[g])
            => fields'[self[g]][Target(pc[g])] = fields[self[g]][Target(pc[g])]]_vars

(***************************************************************************)
(* C19: under fair scheduling every call of InitOnce eventually returns    *)
(* to its caller (normally, or by a panic the caller recovers) or the      *)
(* process aborts.  No caller waits at the gate forever, also when the     *)
(* caller executing the body panics part-way through it.                   *)
(***************************************************************************)
\* g is inside a call of InitOnce
InsideInitOnce(g) == via[g] = "InitOnce" /\ pc[g] # "idle"

C19_InitOnceTerminates ==
    \A g \in Callers : InsideInitOnce(g) ~> (pc[g] = "idle" \/ crashed)

\* the body has panicked and a caller that was waiting for the mutex has
\* got it, found the gate closed and is about to return
C19_Witness ==
    /\ bodyState = "panicked"
    /\ done = 1
    /\ ~crashed
    /\ \E g \in Callers :
        /\ pc[g] = "Unlock"
        /\ mu = g
        /\ ~panicking[g]
        /\ log[g] = << >>

====
